---- MODULE Spec2Model ----
(***************************************************************************)
(* A model of the flatpage crate: the frontmatter splitter, the page       *)
(* resolver (from_content, by_path, by_url) and the metadata store         *)
(* (read_dir and its lookups) over a small file system.                    *)
(*                                                                         *)
(* Text is a sequence of characters, each character a one-character        *)
(* string.  Two longer atoms, "title:" and "description:", stand for the   *)
(* key texts of the frontmatter; they hold no whitespace, no '-' and no    *)
(* '#', so trimming, delimiter search and line splitting treat them like   *)
(* any other run of ordinary characters.                                   *)
(***************************************************************************)
EXTENDS Integers, Sequences, FiniteSets, TLC

VARIABLES content, split, page, fs, store, call

vars == <<content, split, page, fs, store, call>>

(***************************************************************************)
(* Bounds                                                                  *)
(***************************************************************************)
MaxSplitPieces == 7

(***************************************************************************)
(* str primitives of the standard library, as the code uses them           *)
(***************************************************************************)
\* char::is_whitespace, restricted to the characters of the model
Whitespace == {" ", "\n"}

RECURSIVE trim_start(_)
trim_start(s) ==
    IF s # <<>> /\ Head(s) \in Whitespace THEN trim_start(Tail(s)) ELSE s

RECURSIVE trim_end(_)
trim_end(s) ==
    IF s # <<>> /\ s[Len(s)] \in Whitespace
    THEN trim_end(SubSeq(s, 1, Len(s) - 1))
    ELSE s

trim(s) == trim_end(trim_start(s))

\* pat occurs in s at (1-based) position i
MatchAt(s, pat, i) ==
    /\ i + Len(pat) - 1 <= Len(s)
    /\ SubSeq(s, i, i + Len(pat) - 1) = pat

\* str::find: the position of the first occurrence of pat at or after i,
\* 0 when there is none
RECURSIVE find_from(_, _, _)
find_from(s, pat, i) ==
    IF i + Len(pat) - 1 > Len(s) THEN 0
    ELSE IF MatchAt(s, pat, i) THEN i
    ELSE find_from(s, pat, i + 1)

None == [some |-> FALSE]

\* the two sides of s around the occurrence of pat at position i
split_at(s, pat, i) ==
    IF i = 0 THEN None
    ELSE [some |-> TRUE,
          fst  |-> SubSeq(s, 1, i - 1),
          snd  |-> SubSeq(s, i + Len(pat), Len(s))]

\* str::split_once
split_once(s, pat) == split_at(s, pat, find_from(s, pat, 1))

(***************************************************************************)
(* frontmatter.rs                                                          *)
(***************************************************************************)
EMPTY_YAML == <<"{", "}">>

OpenDelim  == <<"-", "-", "-", "\n">>
CloseDelim == <<"\n", "-", "-", "-">>

\* split_frontmatter, from the split at the closing pattern on
close_block(second) ==
    IF ~second.some THEN None
    ELSE [some |-> TRUE, matter |-> second.fst, body |-> trim(second.snd)]

\* the position of the last occurrence of pat in s, 0 when there is none
rfind(s, pat) ==
    IF \E i \in 1..Len(s) : MatchAt(s, pat, i)
    THEN CHOOSE i \in 1..Len(s) :
             MatchAt(s, pat, i) /\ \A j \in (i + 1)..Len(s) : ~MatchAt(s, pat, j)
    ELSE 0

\* open_block without the check that the delimiter comes first
open_block_unanchored(first) ==
    IF ~first.some THEN None
    ELSE close_block(split_once(first.snd, CloseDelim))

\* open_block closing the block at the last closing pattern
open_block_last_close(first) ==
    IF ~first.some THEN None
    ELSE IF first.fst # <<>> THEN None
    ELSE close_block(split_at(first.snd, CloseDelim, rfind(first.snd, CloseDelim)))

\* split_frontmatter, from the split at the opening delimiter on
open_block(first) ==
    IF ~first.some THEN None
    ELSE IF first.fst # <<>> THEN None
    ELSE close_block(split_once(first.snd, CloseDelim))

split_frontmatter(c) == open_block(split_once(trim_start(c), OpenDelim))

\* split_frontmatter(content).unwrap_or_else(|| (EMPTY_YAML, content.trim()))
unwrap_or_else(s, c) ==
    IF s.some THEN [matter |-> s.matter, body |-> s.body]
    ELSE [matter |-> EMPTY_YAML, body |-> trim(c)]

\* The (matter, body) pair Frontmatter::parse hands to the deserializer
parse_pair(c) == unwrap_or_else(split_frontmatter(c), c)

(***************************************************************************)
(* lib.rs: the frontmatter record and its deserializer                     *)
(*                                                                         *)
(* serde_yaml is outside the crate.  from_str gives its outcome on block   *)
(* mappings of one "key: value" entry per line, the keys being the atoms   *)
(* "title:" and "description:" and any other atom ending the same way an   *)
(* unknown key; every other document is reported malformed.                *)
(***************************************************************************)
Keys == {"title:", "description:", "foo:"}

ScalarChars == {"a", "b"}

RECURSIVE lines(_)
lines_at(s, i) ==
    IF s = <<>> THEN <<>>
    ELSE IF i = 0 THEN <<s>>
    ELSE <<SubSeq(s, 1, i - 1)>> \o lines(SubSeq(s, i + 1, Len(s)))

\* str::lines
lines(s) == lines_at(s, find_from(s, <<"\n">>, 1))

IsBlank(l) == \A i \in 1..Len(l) : l[i] = " "

\* a line that starts with a key, rest being what follows the key, trimmed
yaml_entry(l, rest) ==
    IF rest = <<>> THEN [kind |-> "entry", key |-> Head(l), val |-> None]
    ELSE IF l[2] # " " THEN [kind |-> "bad"]
    ELSE IF rest[1] = "#" THEN [kind |-> "entry", key |-> Head(l), val |-> None]
    ELSE IF \A i \in 1..Len(rest) : rest[i] \in ScalarChars
         THEN [kind |-> "entry", key |-> Head(l), val |-> [some |-> TRUE, val |-> rest]]
    ELSE [kind |-> "bad"]

\* one line of a block mapping: blank, an entry, or malformed
yaml_line(l) ==
    IF IsBlank(l) THEN [kind |-> "blank"]
    ELSE IF Head(l) \notin Keys THEN [kind |-> "bad"]
    ELSE yaml_entry(l, trim(Tail(l)))

yaml_lines(ls) == [i \in 1..Len(ls) |-> yaml_line(ls[i])]

IsEntry(parsed, i, k) == parsed[i].kind = "entry" /\ parsed[i].key = k

\* the value of the field k, None when the mapping has no such key
field(parsed, k) ==
    IF \E i \in 1..Len(parsed) : IsEntry(parsed, i, k)
    THEN parsed[CHOOSE i \in 1..Len(parsed) : IsEntry(parsed, i, k)].val
    ELSE None

Err == [err |-> TRUE]

\* the record of a parsed mapping: Frontmatter { title, description },
\* #[serde(deny_unknown_fields)]
from_mapping(parsed) ==
    IF \E i \in 1..Len(parsed) : parsed[i].kind = "bad" THEN Err
    ELSE IF \A i \in 1..Len(parsed) : parsed[i].kind # "entry" THEN Err
    ELSE IF \E i \in 1..Len(parsed) :
              parsed[i].kind = "entry" /\ parsed[i].key \notin {"title:", "description:"}
         THEN Err
    ELSE IF \E i, j \in 1..Len(parsed) :
              i # j /\ parsed[i].kind = "entry" /\ IsEntry(parsed, j, parsed[i].key)
         THEN Err
    ELSE [err |-> FALSE, title |-> field(parsed, "title:"),
          description |-> field(parsed, "description:")]

\* serde_yaml::from_str
from_str(matter) == from_mapping(yaml_lines(lines(matter)))

Delim == <<"-", "-", "-">>

splitn3_second(a, b) ==
    IF ~b.some THEN <<a.fst, a.snd>> ELSE <<a.fst, b.fst, b.snd>>

splitn3_first(s, a) ==
    IF ~a.some THEN <<s>> ELSE splitn3_second(a, split_once(a.snd, Delim))

\* content.splitn(3, "---")
splitn3(s) == splitn3_first(s, split_once(s, Delim))

\* Frontmatter::parse, from the deserialized matter on
parse_matter(m, body) ==
    IF m.err THEN Err
    ELSE [err |-> FALSE,
          matter |-> [some |-> TRUE, title |-> m.title, description |-> m.description],
          body |-> trim(body)]

\* Frontmatter::parse, from the parts of the trimmed content on
parse_parts(trimmed, parts) ==
    IF parts[1] # <<>> THEN [err |-> FALSE, matter |-> None, body |-> trimmed]
    ELSE IF Len(parts) < 2 THEN [err |-> FALSE, matter |-> None, body |-> trimmed]
    ELSE IF Len(parts) < 3 THEN [err |-> FALSE, matter |-> None, body |-> trimmed]
    ELSE parse_matter(from_str(parts[2]), parts[3])

parse_trimmed(trimmed) == parse_parts(trimmed, splitn3(trimmed))

\* Frontmatter::parse of lib.rs
Frontmatter_parse(c) == parse_trimmed(trim(c))

RECURSIVE trim_start_matches(_, _)
trim_start_matches(s, ch) ==
    IF s # <<>> /\ Head(s) = ch THEN trim_start_matches(Tail(s), ch) ELSE s

\* .next().unwrap_or_default()
first_or_default(ls) == IF ls = <<>> THEN <<>> ELSE ls[1]

title_from_markdown(body) ==
    trim(trim_start_matches(first_or_default(lines(body)), "#"))

\* page_from taking the title from the body even when the frontmatter
\* gives one
page_from_body_title(c, p) ==
    IF p.err THEN Err
    ELSE IF p.matter.some
    THEN [err |-> FALSE,
          title |-> title_from_markdown(p.body),
          description |-> p.matter.description,
          body |-> p.body]
    ELSE [err |-> FALSE,
          title |-> title_from_markdown(c),
          description |-> None,
          body |-> c]

\* from_content, from the parsed frontmatter on
page_from(c, p) ==
    IF p.err THEN Err
    ELSE IF p.matter.some
    THEN [err |-> FALSE,
          title |-> IF p.matter.title.some THEN p.matter.title.val
                    ELSE title_from_markdown(p.body),
          description |-> p.matter.description,
          body |-> p.body]
    ELSE [err |-> FALSE,
          title |-> title_from_markdown(c),
          description |-> None,
          body |-> c]

\* FlatPage::from_content
from_content(c) == page_from(c, Frontmatter_parse(c))

(***************************************************************************)
(* The file system, as std::fs and std::path show it to the crate          *)
(***************************************************************************)
Root == <<"/", "r">>

\* "<FF>" stands for a byte that is not valid UTF-8
HomeName   == <<"^", ".", "m", "d">>
PageName   == <<"a", ".", "m", "d">>
TextName   == <<"a", ".", "t", "x", "t">>
DotName    == <<".", "m", "d">>
BinaryName == <<"<FF>", ".", "m", "d">>

DirNames == {HomeName, PageName, TextName, DotName, BinaryName}

\* PathBuf::push
push(base, name) ==
    IF name # <<>> /\ Head(name) = "/" THEN name
    ELSE IF base # <<>> /\ base[Len(base)] = "/" THEN base \o name
    ELSE base \o <<"/">> \o name

Outside == <<"/", "x", ".", "m", "d">>

Paths == {push(Root, n) : n \in DirNames} \cup {Outside}

PlainPage   == <<"#", " ", "a", "\n">>
TitledPage  == <<"-", "-", "-", "\n", "title:", " ", "b", "\n", "-", "-", "-", "\n", "a">>
BrokenPage  == <<"-", "-", "-", "\n", "foo:", " ", "a", "\n", "-", "-", "-">>

Absent      == [kind |-> "absent"]
Directory   == [kind |-> "dir"]
Denied      == [kind |-> "denied"]
NotUtf8     == [kind |-> "binary"]
TextFile(c) == [kind |-> "text", content |-> c]

\* what the environment may put at each path
Nodes(p) ==
    IF p = push(Root, HomeName)
        THEN {Absent, Denied, TextFile(PlainPage), TextFile(TitledPage), TextFile(BrokenPage)}
    ELSE IF p = push(Root, PageName)
        THEN {Absent, Directory, NotUtf8, TextFile(PlainPage)}
    ELSE IF p = push(Root, TextName) THEN {Absent, TextFile(BrokenPage)}
    ELSE IF p = push(Root, DotName) THEN {Absent, TextFile(PlainPage)}
    ELSE IF p = push(Root, BinaryName) THEN {Absent, TextFile(BrokenPage)}
    ELSE {TextFile(TitledPage)}

node(f, p) ==
    IF p \in DOMAIN f THEN f[p]
    ELSE IF p = Root THEN Directory
    ELSE Absent

read_node(n) ==
    IF n.kind = "text" THEN [ok |-> TRUE, text |-> n.content] ELSE [ok |-> FALSE]

\* fs::read_to_string
read_to_string(f, p) == read_node(node(f, p))

\* Path::is_file
is_file(f, p) == node(f, p).kind \in {"denied", "binary", "text"}

LastIndexOf(s, ch) ==
    IF \E i \in 1..Len(s) : s[i] = ch
    THEN CHOOSE i \in 1..Len(s) : s[i] = ch /\ \A j \in (i + 1)..Len(s) : s[j] # ch
    ELSE 0

\* Path::file_name of a path that ends in a normal component
file_name(p) == SubSeq(p, LastIndexOf(p, "/") + 1, Len(p))

parent(p) == SubSeq(p, 1, LastIndexOf(p, "/") - 1)

split_at_dot(name, i) ==
    IF name = <<".", ".">> THEN [before |-> [some |-> TRUE, val |-> name], after |-> None]
    ELSE IF i = 0 THEN [before |-> None, after |-> [some |-> TRUE, val |-> name]]
    ELSE IF i = 1 THEN [before |-> [some |-> TRUE, val |-> name], after |-> None]
    ELSE [before |-> [some |-> TRUE, val |-> SubSeq(name, 1, i - 1)],
          after  |-> [some |-> TRUE, val |-> SubSeq(name, i + 1, Len(name))]]

\* the split of a file name at its last dot that Path::file_stem and
\* Path::extension share
rsplit_file_at_dot(name) == split_at_dot(name, LastIndexOf(name, "."))

\* before.and(after)
and_after(r) == IF r.before.some THEN r.after ELSE None

\* before.or(after)
or_after(r) == IF r.before.some THEN r.before ELSE r.after

\* Path::extension
extension(p) == and_after(rsplit_file_at_dot(file_name(p)))

\* Path::file_stem
file_stem(p) == or_after(rsplit_file_at_dot(file_name(p)))

\* OsStr::to_str
to_str(o) ==
    IF o.some /\ \A i \in 1..Len(o.val) : o.val[i] # "<FF>" THEN o ELSE None

(***************************************************************************)
(* lib.rs: lookups by path and by url                                      *)
(***************************************************************************)
OkNone == [ok |-> TRUE, page |-> None]

\* by_path, from the outcome of from_content on
page_result(p, r) ==
    IF r.err
    THEN [res |-> [ok |-> FALSE, error |-> "Frontmatter", path |-> p], reads |-> {p}]
    ELSE [res |-> [ok |-> TRUE,
                   page |-> [some |-> TRUE, title |-> r.title,
                             description |-> r.description, body |-> r.body]],
          reads |-> {p}]

\* read_page reporting a failed read as an error
read_page_error(p, c) ==
    IF ~c.ok
    THEN [res |-> [ok |-> FALSE, error |-> "Frontmatter", path |-> p], reads |-> {p}]
    ELSE page_result(p, from_content(c.text))

\* by_path, from the outcome of the read on
read_page(p, c) ==
    IF ~c.ok THEN [res |-> OkNone, reads |-> {p}]
    ELSE page_result(p, from_content(c.text))

\* FlatPage::by_path: the result and the paths it read
by_path(f, p) == read_page(p, read_to_string(f, p))

ALLOWED_IN_URL == {"/", "_", "-"}

\* char::is_ascii_alphanumeric, on the characters of the model
is_ascii_alphanumeric(c) == c \in {"a", "b", "f", "o", "r", "z", "Z", "0", "9"}

\* str::replace of one character
replace(s, from, to) == [i \in 1..Len(s) |-> IF s[i] = from THEN to ELSE s[i]]

\* url_to_filename with '.' let through
url_to_filename_dot(url) ==
    IF url = <<>> THEN None
    ELSE IF \A i \in 1..Len(url) :
              is_ascii_alphanumeric(url[i]) \/ url[i] \in ALLOWED_IN_URL \cup {"."}
    THEN [some |-> TRUE, val |-> replace(url, "/", "^") \o <<".", "m", "d">>]
    ELSE None

\* url_to_filename dropping a trailing slash
url_to_filename_strip(url) ==
    IF url = <<>> THEN None
    ELSE IF \A i \in 1..Len(url) :
              is_ascii_alphanumeric(url[i]) \/ url[i] \in ALLOWED_IN_URL
    THEN LET u == IF Len(url) > 1 /\ url[Len(url)] = "/"
                  THEN SubSeq(url, 1, Len(url) - 1) ELSE url
         IN  [some |-> TRUE, val |-> replace(u, "/", "^") \o <<".", "m", "d">>]
    ELSE None

url_to_filename(url) ==
    IF url = <<>> THEN None
    ELSE IF \A i \in 1..Len(url) :
              is_ascii_alphanumeric(url[i]) \/ url[i] \in ALLOWED_IN_URL
    THEN [some |-> TRUE, val |-> replace(url, "/", "^") \o <<".", "m", "d">>]
    ELSE None

with_filename(r, filename) ==
    [res |-> r.res, reads |-> r.reads, filename |-> filename]

\* by_url, from the derived file name on
open_file(f, root, filename) ==
    IF ~filename.some THEN [res |-> OkNone, reads |-> {}, filename |-> None]
    ELSE with_filename(by_path(f, push(root, filename.val)), filename)

\* FlatPage::by_url: the result, the paths it read and the file name derived
by_url(f, root, url) == open_file(f, root, url_to_filename(url))

(***************************************************************************)
(* store.rs                                                                *)
(***************************************************************************)
\* From<FlatPage> for FlatPageMeta
meta_of(pg) == [title |-> pg.title, description |-> pg.description]

\* FlatPageStore::url_to_stem
url_to_stem(url) == replace(url, "/", "^")

md_ext == [some |-> TRUE, val |-> <<"m", "d">>]

Continue(pages) == [ok |-> TRUE, pages |-> pages]

\* visit_page skipping a file whose frontmatter is broken
visit_page_skip_broken(pages, stem, r) ==
    IF ~r.ok THEN Continue(pages)
    ELSE IF ~r.page.some THEN Continue(pages)
    ELSE Continue((stem.val :> meta_of(r.page)) @@ pages)

\* the body of the loop of read_dir, from the result of by_path on
visit_page(pages, stem, r) ==
    IF ~r.ok THEN r
    ELSE IF ~r.page.some THEN Continue(pages)
    ELSE Continue((stem.val :> meta_of(r.page)) @@ pages)

\* the body of the loop of read_dir, from the stem on
visit_stem(f, path, pages, stem) ==
    IF ~stem.some THEN Continue(pages)
    ELSE visit_page(pages, stem, by_path(f, path).res)

\* the body of the loop of read_dir for one entry
visit(f, path, pages) ==
    IF ~is_file(f, path) \/ extension(path) # md_ext THEN Continue(pages)
    ELSE visit_stem(f, path, pages, to_str(file_stem(path)))

\* The loop of read_dir over the items the directory iterator yields, the
\* item at position failAt (if any) being an error
RECURSIVE scan(_, _, _, _, _)
scan_next(f, items, i, failAt, v) ==
    IF ~v.ok THEN v ELSE scan(f, items, i + 1, failAt, v.pages)

scan(f, items, i, failAt, pages) ==
    IF i > Len(items) THEN Continue(pages)
    ELSE IF i = failAt THEN [ok |-> FALSE, error |-> "DirEntry"]
    ELSE scan_next(f, items, i, failAt, visit(f, items[i], pages))

\* Ok(Self { root, pages })
build(root, r) ==
    IF ~r.ok THEN r
    ELSE [ok |-> TRUE, store |-> [some |-> TRUE, root |-> root, pages |-> r.pages]]

\* FlatPageStore::read_dir; listing tells whether fs::read_dir succeeds
read_dir(f, root, listing, items, failAt) ==
    IF ~listing THEN [ok |-> FALSE, error |-> "ReadDir", path |-> root]
    ELSE build(root, scan(f, items, 1, failAt, <<>>))

meta_by_stem(st, stem) ==
    IF stem \in DOMAIN st.pages
    THEN [some |-> TRUE, title |-> st.pages[stem].title,
          description |-> st.pages[stem].description]
    ELSE None

meta_by_url(st, url) == meta_by_stem(st, url_to_stem(url))

\* page_by_stem answering from the index instead of the file
page_by_stem_cached(f, st, stem) ==
    IF stem \in DOMAIN st.pages
    THEN [res |-> [ok |-> TRUE,
                   page |-> [some |-> TRUE, title |-> st.pages[stem].title,
                             description |-> st.pages[stem].description,
                             body |-> <<>>]],
          reads |-> {}]
    ELSE [res |-> OkNone, reads |-> {}]

\* page_by_stem reading the file without looking the stem up in the index
page_by_stem_unchecked(f, st, stem) ==
    by_path(f, push(st.root, stem \o <<".", "m", "d">>))

page_by_stem(f, st, stem) ==
    IF stem \in DOMAIN st.pages
    THEN by_path(f, push(st.root, stem \o <<".", "m", "d">>))
    ELSE [res |-> OkNone, reads |-> {}]

page_by_url(f, st, url) == page_by_stem(f, st, url_to_stem(url))

(***************************************************************************)
(* Inputs                                                                  *)
(***************************************************************************)
RECURSIVE Flatten(_)
Flatten(ps) == IF ps = <<>> THEN <<>> ELSE Head(ps) \o Flatten(Tail(ps))

Texts(Pieces, n) ==
    { Flatten(ps) : ps \in UNION { [1..k -> Pieces] : k \in 0..n } }

SplitPieces == { <<"-">>, <<"-", "-", "-">>, <<"\n">>, <<" ">>, <<"a">> }

SplitContents == Texts(SplitPieces, MaxSplitPieces)

MaxPagePieces == 5

PagePieces ==
    { <<"-", "-", "-">>, <<"\n">>, <<" ">>, <<"#">>, <<"a">>,
      <<"title:", " ", "b">>, <<"description:", " ", "a">> }

PageContents == Texts(PagePieces, MaxPagePieces)

MaxUrlLen == 2

UrlChars == {"a", "0", "/", "_", "-", "#", ".", "\\", "<NUL>", "<e-acute>"}

ExampleUrl == <<"/", "f", "o", "o", "-", "b", "a", "r", "/", "b", "a", "z", "/">>

Urls == Texts({<<c>> : c \in UrlChars}, MaxUrlLen) \cup {ExampleUrl}

LookupPaths == Paths \cup {Root, push(Root, <<"n", "o">>)}

StoreStems == {<<"^">>, <<"a">>, <<"b">>, <<>>, <<"<FF>">>, <<"/", "x">>}

StoreUrls == {<<"/">>, <<"a">>, <<"/", "x">>, <<"#">>}

\* the orders in which a directory iterator may yield the entries S
Orders(S) ==
    {o \in [1..Cardinality(S) -> S] : \A i, j \in 1..Cardinality(S) : o[i] = o[j] => i = j}

\* the entries of the directory root
entries(f, root) == {q \in DOMAIN f : parent(q) = root /\ f[q].kind # "absent"}

Idle == [op |-> "idle"]

(***************************************************************************)
(* The splitter applied to one content string                              *)
(***************************************************************************)
InitSplit ==
    /\ content \in SplitContents
    /\ split = [done |-> FALSE]
    /\ page = [done |-> FALSE]
    /\ fs = <<>>
    /\ store = None
    /\ call = Idle

DoSplit ==
    /\ ~split.done
    /\ split' = [done |-> TRUE,
                 opt  |-> split_frontmatter(content),
                 pair |-> parse_pair(content)]
    /\ UNCHANGED <<content, page, fs, store, call>>

NextSplit == DoSplit

SpecSplit == InitSplit /\ [][NextSplit]_vars

(***************************************************************************)
(* from_content applied to one content string                              *)
(***************************************************************************)
InitPage ==
    /\ content \in PageContents
    /\ split = [done |-> FALSE]
    /\ page = [done |-> FALSE]
    /\ fs = <<>>
    /\ store = None
    /\ call = Idle

Resolve ==
    /\ ~page.done
    /\ page' = [done   |-> TRUE,
                parsed |-> Frontmatter_parse(content),
                res    |-> from_content(content)]
    /\ UNCHANGED <<content, split, fs, store, call>>

NextPage == Resolve

SpecPage == InitPage /\ [][NextPage]_vars

(***************************************************************************)
(* The file system changing under the program, and the lookups             *)
(***************************************************************************)
InitFs ==
    /\ content = <<>>
    /\ split = [done |-> FALSE]
    /\ page = [done |-> FALSE]
    /\ fs = [q \in Paths |-> IF q = Outside THEN TextFile(TitledPage) ELSE Absent]
    /\ store = None
    /\ call = Idle

\* a file or directory is created, removed or rewritten
FsWrite(q, n) ==
    /\ call.op = "idle"
    /\ n # fs[q]
    /\ fs' = [fs EXCEPT ![q] = n]
    /\ UNCHANGED <<content, split, page, store, call>>

\* the caller is done with the result of its last call
Return ==
    /\ call.op # "idle"
    /\ call' = Idle
    /\ UNCHANGED <<content, split, page, fs, store>>

url_call(url, r) ==
    [op |-> "by_url", url |-> url, res |-> r.res, reads |-> r.reads,
     filename |-> r.filename]

ByUrl(url) ==
    /\ call.op = "idle"
    /\ call' = url_call(url, by_url(fs, Root, url))
    /\ UNCHANGED <<content, split, page, fs, store>>

path_call(q, r) == [op |-> "by_path", path |-> q, res |-> r.res, reads |-> r.reads]

ByPath(q) ==
    /\ call.op = "idle"
    /\ call' = path_call(q, by_path(fs, q))
    /\ UNCHANGED <<content, split, page, fs, store>>

NextResolver ==
    \/ \E q \in Paths : \E n \in Nodes(q) : FsWrite(q, n)
    \/ Return
    \/ \E url \in Urls : ByUrl(url)
    \/ \E q \in LookupPaths : ByPath(q)

SpecResolver == InitFs /\ [][NextResolver]_vars

ReadDirReturn(listing, failAt, r) ==
    /\ store' = IF r.ok THEN r.store ELSE store
    /\ call' = [op |-> "read_dir", listing |-> listing, failAt |-> failAt,
                res |-> IF r.ok THEN [ok |-> TRUE] ELSE r]

ReadDir(listing, items, failAt) ==
    /\ call.op = "idle"
    /\ ~store.some
    /\ ReadDirReturn(listing, failAt, read_dir(fs, Root, listing, items, failAt))
    /\ UNCHANGED <<content, split, page, fs>>

MetaByStem(stem) ==
    /\ call.op = "idle"
    /\ store.some
    /\ call' = [op |-> "meta_by_stem", stem |-> stem, res |-> meta_by_stem(store, stem)]
    /\ UNCHANGED <<content, split, page, fs, store>>

MetaByUrl(url) ==
    /\ call.op = "idle"
    /\ store.some
    /\ call' = [op |-> "meta_by_url", url |-> url, res |-> meta_by_url(store, url)]
    /\ UNCHANGED <<content, split, page, fs, store>>

stem_call(stem, r) ==
    [op |-> "page_by_stem", stem |-> stem, res |-> r.res, reads |-> r.reads]

Refresh(stem, r) ==
    /\ call' = stem_call(stem, r)
    /\ store' = IF r.res.ok /\ r.res.page.some
                THEN [store EXCEPT !.pages = (stem :> meta_of(r.res.page)) @@ @]
                ELSE store

\* page_by_stem storing the metadata of the page it read back in the index
PageByStem_refresh(stem) ==
    /\ call.op = "idle"
    /\ store.some
    /\ Refresh(stem, page_by_stem(fs, store, stem))
    /\ UNCHANGED <<content, split, page, fs>>

PageByStem(stem) ==
    /\ call.op = "idle"
    /\ store.some
    /\ call' = stem_call(stem, page_by_stem(fs, store, stem))
    /\ UNCHANGED <<content, split, page, fs, store>>

stem_url_call(url, r) ==
    [op |-> "page_by_url", url |-> url, res |-> r.res, reads |-> r.reads]

PageByUrl(url) ==
    /\ call.op = "idle"
    /\ store.some
    /\ call' = stem_url_call(url, page_by_url(fs, store, url))
    /\ UNCHANGED <<content, split, page, fs, store>>

Init == InitFs

Next ==
    \/ \E q \in Paths : \E n \in Nodes(q) : FsWrite(q, n)
    \/ Return
    \/ \E listing \in BOOLEAN : \E items \in Orders(entries(fs, Root)) :
         \E failAt \in 0..Len(items) : ReadDir(listing, items, failAt)
    \/ \E stem \in StoreStems : MetaByStem(stem)
    \/ \E url \in StoreUrls : MetaByUrl(url)
    \/ \E stem \in StoreStems : PageByStem(stem)
    \/ \E url \in StoreUrls : PageByUrl(url)

Spec == Init /\ [][Next]_vars

(***************************************************************************)
(* The store and the lookup by url side by side                            *)
(***************************************************************************)
LookupUrls ==
    StoreUrls \cup {<<".", ".", "/", "x">>, <<"\\", "x">>, <<"/", "/", "x">>, <<"/", "a">>}

NextLookup ==
    \/ Next
    \/ \E url \in LookupUrls : ByUrl(url)

SpecLookup == Init /\ [][NextLookup]_vars

(***************************************************************************)
(* Vocabulary of the claims                                                *)
(***************************************************************************)
IsPrefix(p, s) == Len(p) <= Len(s) /\ \A i \in 1..Len(p) : s[i] = p[i]

Occurs(pat, s) == \E i \in 1..Len(s) : MatchAt(s, pat, i)

NoOuterSpace(s) == s = <<>> \/ (s[1] \notin Whitespace /\ s[Len(s)] \notin Whitespace)

\* b is s without its leading and trailing whitespace
IsTrimOf(b, s) ==
    \E i \in 0..Len(s) : \E j \in i..Len(s) :
        /\ b = SubSeq(s, i + 1, j)
        /\ \A k \in 1..i : s[k] \in Whitespace
        /\ \A k \in (j + 1)..Len(s) : s[k] \in Whitespace
        /\ NoOuterSpace(b)

\* b is s without its leading whitespace
IsTrimStartOf(b, s) ==
    \E i \in 0..Len(s) :
        /\ b = SubSeq(s, i + 1, Len(s))
        /\ \A k \in 1..i : s[k] \in Whitespace
        /\ (b = <<>> \/ b[1] \notin Whitespace)

\* the content has an opening delimiter at its trimmed start and a closing
\* pattern in what follows it
HasBlock(c) ==
    \E t \in {SubSeq(c, i, Len(c)) : i \in 1..(Len(c) + 1)} :
        /\ IsTrimStartOf(t, c)
        /\ IsPrefix(OpenDelim, t)
        /\ Occurs(CloseDelim, SubSeq(t, Len(OpenDelim) + 1, Len(t)))

\* C3: content that does not begin (after leading whitespace) with "---\n",
\* or begins with it but has no "\n---" afterwards, has no frontmatter and
\* its body is the trimmed content
C3_NoBlockNoFrontmatter ==
    (split.done /\ ~HasBlock(content)) =>
        /\ ~split.opt.some
        /\ IsTrimOf(split.pair.body, content)
        /\ split.pair.matter = EMPTY_YAML

C3_Witness ==
    /\ split.done
    /\ ~HasBlock(content)
    /\ IsPrefix(OpenDelim, trim_start(content))
    /\ content # trim(content)

\* C4: with an opening delimiter and a closing pattern, the metadata block is
\* the text up to the first closing pattern, verbatim, and the body is what
\* follows it, trimmed
C4_BlockSplitAtFirstClose ==
    (split.done /\ HasBlock(content)) =>
        /\ split.opt.some
        /\ split.pair = [matter |-> split.opt.matter, body |-> split.opt.body]
        /\ ~Occurs(CloseDelim, split.opt.matter)
        /\ \E t \in {SubSeq(content, i, Len(content)) : i \in 1..(Len(content) + 1)} :
             /\ IsTrimStartOf(t, content)
             /\ \E after \in {SubSeq(t, i, Len(t)) : i \in 1..(Len(t) + 1)} :
                  /\ t = OpenDelim \o split.opt.matter \o CloseDelim \o after
                  /\ IsTrimOf(split.opt.body, after)

C4_Witness ==
    /\ split.done
    /\ HasBlock(content)
    /\ split.opt.matter # <<>>
    /\ split.opt.matter # trim(split.opt.matter)
    /\ split.opt.body # <<>>
    /\ LET t == trim_start(content) IN
       Cardinality({i \in (Len(OpenDelim) + 1)..Len(t) : MatchAt(t, CloseDelim, i)}) >= 2

\* l is the first line of s
IsFirstLineOf(l, s) ==
    /\ IsPrefix(l, s)
    /\ \A i \in 1..Len(l) : l[i] # "\n"
    /\ (Len(l) = Len(s) \/ s[Len(l) + 1] = "\n")

\* t is the line l without its leading '#' characters and then without the
\* whitespace around what is left
IsHeaderTextOf(t, l) ==
    \E k \in 0..Len(l) :
        /\ \A i \in 1..k : l[i] = "#"
        /\ (k = Len(l) \/ l[k + 1] # "#")
        /\ IsTrimOf(t, SubSeq(l, k + 1, Len(l)))

IsTitleOfBody(t, b) ==
    \E n \in 0..Len(b) :
        /\ IsFirstLineOf(SubSeq(b, 1, n), b)
        /\ IsHeaderTextOf(t, SubSeq(b, 1, n))

Resolved == page.done /\ ~page.res.err

GivesTitle == page.parsed.matter.some /\ page.parsed.matter.title.some

\* C5: a title given by the frontmatter is the page title; without one the
\* page title is the first line of the page's body without its leading '#'
\* characters and surrounding whitespace, the empty string for an empty body
C5_TitleRule ==
    Resolved =>
        /\ GivesTitle => page.res.title = page.parsed.matter.title.val
        /\ ~GivesTitle => IsTitleOfBody(page.res.title, page.res.body)
        /\ (~GivesTitle /\ page.res.body = <<>>) => page.res.title = <<>>

C5_Witness ==
    /\ Resolved
    /\ page.parsed.matter.some
    /\ ~page.parsed.matter.title.some
    /\ page.res.title = <<"a">>
    /\ page.res.body = <<"#", "a">>

\* C6: the body of every resolved page has no leading and no trailing
\* whitespace, with and without a frontmatter block
C6_BodyTrimmed ==
    Resolved => IsTrimOf(page.res.body, page.res.body)

WhitelistChars ==
    {"a", "b", "f", "o", "r", "z", "Z", "0", "9", "/", "_", "-"}

Whitelisted(url) == url # <<>> /\ \A i \in 1..Len(url) : url[i] \in WhitelistChars

DotMd == <<".", "m", "d">>

\* C1: by_url answers Ok(None), reading no file, for the empty url and for
\* every url with a character outside the whitelist
C1_RejectedUrlReadsNothing ==
    (call.op = "by_url" /\ ~Whitelisted(call.url)) =>
        /\ call.res = [ok |-> TRUE, page |-> [some |-> FALSE]]
        /\ call.reads = {}

C1_Witness ==
    /\ call.op = "by_url"
    /\ call.url = <<".", ".">>
    /\ call.reads = {}

\* C2: by_path answers Ok(None) when the file cannot be read as text, and an
\* error only for a file that was read and whose frontmatter does not
\* deserialize, the error carrying the path
C2_ReadFailureIsNone ==
    call.op = "by_path" =>
        /\ node(fs, call.path).kind # "text" =>
               call.res = [ok |-> TRUE, page |-> [some |-> FALSE]]
        /\ ~call.res.ok =>
               /\ node(fs, call.path).kind = "text"
               /\ Frontmatter_parse(node(fs, call.path).content).err
               /\ call.res.path = call.path

C2_Witness ==
    /\ call.op = "by_path"
    /\ node(fs, call.path).kind \in {"denied", "binary", "dir"}
    /\ call.res.ok

\* f is the url with every '/' turned into '^', followed by ".md"
IsFileNameOf(f, url) ==
    /\ Len(f) = Len(url) + 3
    /\ \A i \in 1..Len(url) : f[i] = IF url[i] = "/" THEN "^" ELSE url[i]
    /\ SubSeq(f, Len(url) + 1, Len(f)) = DotMd

\* C9: for a whitelisted url, by_url reads the file named by the url with
\* '/' turned into '^' and ".md" appended, nothing stripped, the same stem
\* the store derives
C9_UrlToFileName ==
    (call.op = "by_url" /\ Whitelisted(call.url)) =>
        /\ call.filename.some
        /\ IsFileNameOf(call.filename.val, call.url)
        /\ call.filename.val = url_to_stem(call.url) \o DotMd
        /\ call.reads = {Root \o <<"/">> \o call.filename.val}
        /\ call.url = <<"/">> => call.filename.val = <<"^", ".", "m", "d">>
        /\ call.url = ExampleUrl =>
               call.filename.val = <<"^", "f", "o", "o", "-", "b", "a", "r", "^",
                                     "b", "a", "z", "^", ".", "m", "d">>

C9_Witness ==
    /\ call.op = "by_url"
    /\ call.url = ExampleUrl
    /\ call.filename.some
    /\ call.filename.val[Len(ExampleUrl)] = "^"

\* the name of a regular file whose extension is md and whose stem is text
IsPageFileName(name, stem) ==
    /\ stem # <<>>
    /\ name = stem \o DotMd
    /\ \A i \in 1..Len(stem) : stem[i] # "<FF>"

PageStems(f) ==
    {stem \in UNION {{SubSeq(file_name(q), 1, k) : k \in 1..Len(file_name(q))} :
                        q \in DOMAIN f} :
        \E q \in DOMAIN f :
            /\ q = Root \o <<"/">> \o file_name(q)
            /\ IsPageFileName(file_name(q), stem)
            /\ f[q].kind \in {"denied", "binary", "text"}}

StemPath(stem) == Root \o <<"/">> \o stem \o DotMd

BrokenStems(f) ==
    {stem \in PageStems(f) :
        /\ f[StemPath(stem)].kind = "text"
        /\ Frontmatter_parse(f[StemPath(stem)].content).err}

ReadableStems(f) == {stem \in PageStems(f) : f[StemPath(stem)].kind = "text"}

\* C7: read_dir succeeds exactly when the listing succeeds, every entry can
\* be inspected and no eligible file has broken frontmatter, and then the
\* keys of the index are the stems of the readable eligible files
C7_ReadDirAllOrNothing ==
    call.op = "read_dir" =>
        /\ call.res.ok <=>
               (call.listing /\ call.failAt = 0 /\ BrokenStems(fs) = {})
        /\ call.res.ok => (store.some /\ DOMAIN store.pages = ReadableStems(fs))
        /\ ~call.res.ok => ~store.some

C7_Witness ==
    /\ call.op = "read_dir"
    /\ call.res.ok
    /\ DOMAIN store.pages = {<<"^">>}
    /\ fs[push(Root, PageName)].kind = "dir"
    /\ fs[push(Root, BinaryName)].kind = "text"
    /\ fs[push(Root, TextName)].kind = "text"
    /\ fs[push(Root, DotName)].kind = "text"

\* C8: page_by_stem answers Ok(None), reading nothing, for a stem that is
\* not in the index, and for a stem in the index what by_path answers for
\* root/<stem>.md now
C8_PageByStemFreshRead ==
    call.op = "page_by_stem" =>
        IF call.stem \in DOMAIN store.pages
        THEN /\ call.res = by_path(fs, StemPath(call.stem)).res
             /\ call.reads = {StemPath(call.stem)}
        ELSE /\ call.res = [ok |-> TRUE, page |-> [some |-> FALSE]]
             /\ call.reads = {}

C8_Witness ==
    /\ call.op = "page_by_stem"
    /\ call.stem \in DOMAIN store.pages
    /\ call.res.ok
    /\ call.res.page.some
    /\ call.res.page.title # store.pages[call.stem].title

SnapshotAnswer(st, stem) ==
    IF stem \in DOMAIN st.pages
    THEN [some |-> TRUE, title |-> st.pages[stem].title,
          description |-> st.pages[stem].description]
    ELSE [some |-> FALSE]

\* C10: once built, the store never changes, whatever lookups are made and
\* however the files change, and the metadata lookups answer from it
C10_SnapshotFixed ==
    [][store.some =>
         /\ store' = store
         /\ call'.op = "meta_by_stem" => call'.res = SnapshotAnswer(store, call'.stem)
         /\ call'.op = "meta_by_url" =>
                call'.res = SnapshotAnswer(store, url_to_stem(call'.url))]_vars

IsStale(now) ==
    \/ now = [ok |-> TRUE, page |-> [some |-> FALSE]]
    \/ now.ok /\ now.page.title = <<"b">>

C10_Witness ==
    /\ call.op = "meta_by_stem"
    /\ call.res.some
    /\ call.res.title = <<"a">>
    /\ IsStale(by_path(fs, StemPath(call.stem)).res)

PathSeparators == {"/", "\\"}

\* q is root joined with one file name that ends in ".md", holds no path
\* separator and is neither "." nor ".."
IsFileInRoot(q, root) ==
    \E n \in 1..Len(q) :
        /\ Len(q) = Len(root) + 1 + n
        /\ SubSeq(q, 1, Len(root)) = root
        /\ q[Len(root) + 1] = "/"
        /\ \A i \in (Len(root) + 2)..Len(q) : q[i] \notin PathSeparators
        /\ n >= 3
        /\ SubSeq(q, Len(q) - 2, Len(q)) = DotMd
        /\ SubSeq(q, Len(root) + 2, Len(q)) \notin {<<".">>, <<".", ".">>}

\* C11: every file read by by_url, page_by_url and page_by_stem is a read of
\* root joined with a single file name ending in ".md", whatever the input
C11_ReadsStayInRoot ==
    call.op \in {"by_url", "page_by_url", "page_by_stem"} =>
        \A q \in call.reads : IsFileInRoot(q, Root)

C11_Witness ==
    /\ call.op = "page_by_url"
    /\ call.url = <<"/">>
    /\ call.reads = {Root \o <<"/", "^", ".", "m", "d">>}
    /\ fs[Outside].kind = "text"
====
